---- MODULE Spec2Model ----
(***************************************************************************)
(* Model of cassandra_repair_scheduler.py: the soft mutex over the "mutex" *)
(* table, the "repair_status" lifecycle, the repair runner and the reset   *)
(* action, run by several nodes against one shared store.                  *)
(*                                                                         *)
(* One scheduler invocation per node is a sequential process whose         *)
(* position is pc[n]; every store call, every subprocess call and every    *)
(* exit is one step, so that the calls of different nodes interleave.      *)
(* A --reset invocation of a node is a second process (rpc[n]) that may    *)
(* run while the node's scheduler invocation is alive.                     *)
(*                                                                         *)
(* main --watch is modelled apart (WatchSpec): the two threads of watch()  *)
(* step through status_update_loop and screen_update_loop over the shared  *)
(* dictionary, while the schedulers of the fleet change the status table.  *)
(***************************************************************************)
EXTENDS Integers, Sequences, FiniteSets, TLC

\* ---- bounds of the model --------------------------------------------------
MaxPlanLen == 2          \* lines the planner prints
MaxEvents == 3           \* cron ticks, --reset runs, failing calls and TTL
                         \* expiries, all nodes together

\* ---- the fleet ------------------------------------------------------------
Nodes == {"n1", "n2", "n3"}
DataCenters == {"dc1", "dc2"}

\* SELECT data_center FROM system.local, as seen by each node.
get_data_center(n) == IF n = "n3" THEN "dc2" ELSE "dc1"

\* Rows of a table scan come back in token order of the partition key
\* (nodename), which is a fixed function of the names.
TokenOrder == <<"n2", "n1", "n3">>

COMPLETED == "Completed"
STARTED == "Started"
NoRecord == "-"
NoRow == <<>>

Keys == Nodes \X DataCenters

\* The planner prints k lines "<step> <command>", each ended by a newline;
\* split('\n') then yields those k lines and one empty string after them.
StepNames == <<"range1", "range2", "range3", "range4">>
Commands == <<"cmd1", "cmd2", "cmd3", "cmd4">>
Blank == <<>>
Plans == 0..MaxPlanLen
PlanOutput(k) ==
    [i \in 1..(k + 1) |-> IF i <= k THEN <<StepNames[i], Commands[i]>> ELSE Blank]

StatusValues == {STARTED, COMPLETED} \cup {StepNames[i] : i \in 1..Len(StepNames)}

VARIABLES
    mutex,        \* the "mutex" table: the set of keys that have a row
    status,       \* the "repair_status" table: key -> repair_status or NoRecord
    pc,           \* position of each node's scheduler invocation
    conn,         \* self.conn of that invocation is not None
    result,       \* the local `result` of check_should_run (last rows read)
    ret,          \* what check_should_run returned: "none", "True", "False"
    repair_steps, \* the list run_repair iterates over
    line,         \* index of the next line of repair_steps
    log,          \* writes, deletes and subprocess calls of the invocation
    exitcode,     \* how the last invocation ended
    rpc,          \* position of each node's --reset invocation
    rdone,        \* resets of the node completed in a row, undisturbed
    racing,       \* the invocation began while a peer was acquiring
    stale,        \* some verifying read did not reflect the table
    cooled,       \* the nodes whose 'Completed' record has expired
    invocations, resets, faults, expiries

\* main --watch (lines 295-425): the two threads and the dictionary they share
VARIABLES
    status_dict,   \* watch: the shared dictionary, nodename -> row
    upc,           \* position of status_update_loop
    uconn,         \* self.conn of the watching process is not None
    polled,        \* the rows get_all_status returned in this poll cycle
    ui,            \* index of the next row of `polled` to store
    nodenames,     \* the list status_dict.keys() of the delete loop
    uj,            \* index of the next name of `nodenames` to look at
    spc,           \* position of screen_update_loop
    pos,           \* the slot the dictionary iterator has reached
    size0          \* the size of the dictionary when the iteration began

vars == <<mutex, status, pc, conn, result, ret, repair_steps, line, log,
          exitcode, rpc, rdone, racing, stale, cooled, invocations, resets,
          faults, expiries, status_dict, upc, uconn, polled, ui, nodenames,
          uj, spc, pos, size0>>

\* groups of variables, for the UNCHANGED clauses
locals == <<conn, result, ret, repair_steps, line, log, racing>>
resetvars == <<rpc, rdone>>
budgets == <<invocations, resets, faults, expiries>>
watchvars == <<status_dict, upc, uconn, polled, ui, nodenames, uj, spc, pos,
               size0>>
offstage == <<cooled, watchvars>>
schedvars == <<mutex, pc, locals, exitcode, resetvars, stale, cooled>>

\* ---- the CQL statements (CqlWrapper, lines 66-82) ---------------------------
DCOrder == <<"dc1", "dc2">>
KeyOrder ==
    [i \in 1..(Len(TokenOrder) * Len(DCOrder)) |->
        <<TokenOrder[((i - 1) \div Len(DCOrder)) + 1],
          DCOrder[((i - 1) % Len(DCOrder)) + 1]>>]

\* the keys a scan returns: those of `present`, in the order of KeyOrder
Scan(present) == SelectSeq(KeyOrder, LAMBDA k : k \in present)

\* mutant: the cool-down record is not counted as a record
GET_STATUS_running_only(st, nodename, data_center) ==
    IF st[<<nodename, data_center>>] \in {NoRecord, COMPLETED} THEN <<>>
    ELSE << <<st[<<nodename, data_center>>]>> >>

GET_STATUS(st, nodename, data_center) ==
    IF st[<<nodename, data_center>>] = NoRecord THEN <<>>
    ELSE << <<st[<<nodename, data_center>>]>> >>

GET_LOCAL_STATUS(st, data_center) ==
    LET ks == Scan({k \in Keys : st[k] # NoRecord /\ k[2] = data_center})
    IN  [i \in 1..Len(ks) |-> <<ks[i][1], st[ks[i]]>>]

MUTEX_CHECK(view) ==
    LET ks == Scan(view) IN [i \in 1..Len(ks) |-> <<ks[i][1], ks[i][2]>>]

MUTEX_START(m, nodename, data_center) == m \cup {<<nodename, data_center>>}

\* mutant: the WHERE clause forgets the nodename
MUTEX_CLEANUP_whole_dc(m, nodename, data_center) ==
    {k \in m : k[2] # data_center}

MUTEX_CLEANUP(m, nodename, data_center) == m \ {<<nodename, data_center>>}

REPAIR_START(st, nodename, data_center) ==
    [st EXCEPT ![<<nodename, data_center>>] = STARTED]

\* A CQL UPDATE is an upsert: it sets the column whether or not the row exists.
REPAIR_UPDATE(st, nodename, data_center, newstatus) ==
    [st EXCEPT ![<<nodename, data_center>>] = newstatus]

\* mutant: only a finished run's record is removed
REPAIR_CLEANUP_completed_only(st, nodename, data_center) ==
    IF st[<<nodename, data_center>>] = COMPLETED
    THEN [st EXCEPT ![<<nodename, data_center>>] = NoRecord]
    ELSE st

REPAIR_CLEANUP(st, nodename, data_center) ==
    [st EXCEPT ![<<nodename, data_center>>] = NoRecord]

\* A read at consistency level ONE answers from one replica, which may not
\* have received every write: it shows any part of the table.
WeakViews(m) == SUBSET m

\* SELECT nodename, data_center, repair_status, WRITETIME(repair_status):
\* one row per record (the write time, used only to sort and to colour the
\* display, is left out)
GET_ALL_STATUS(st) ==
    LET ks == Scan({k \in Keys : st[k] # NoRecord})
    IN  [i \in 1..Len(ks) |-> <<ks[i][1], ks[i][2], st[ks[i]]>>]

\* what a replica may answer to a ONE read of the status table: every record
\* it shows is in the table, some may be missing
WeakStatusViews(st) ==
    {[k \in Keys |-> IF k \in hidden THEN NoRecord ELSE st[k]] :
        hidden \in SUBSET {k \in Keys : st[k] # NoRecord}}

\* ---- helpers of the invocation ----------------------------------------------
Key(n) == <<n, get_data_center(n)>>
Peers(n) == {m \in Nodes \ {n} : get_data_center(m) = get_data_center(n)}

AcquiringPCs == {"GET_STATUS", "GET_LOCAL_STATUS", "MUTEX_START", "MUTEX_CHECK",
                 "REPAIR_START"}
RunningPCs == {"CLAIM_MUTEX_CLEANUP", "PLAN", "REPAIR_UPDATE", "COMMAND", "WAIT",
               "COMPLETED_UPDATE"}
QueryOrDiePCs == {"GET_STATUS", "GET_LOCAL_STATUS", "MUTEX_START", "MUTEX_CHECK",
                  "REPAIR_START", "CLAIM_MUTEX_CLEANUP"}

\* RUNNING: 'Started' is written and the final 'Completed' write is still ahead.
RUNNING(n) == pc[n] \in RunningPCs

Logged(n, op, val) == [log EXCEPT ![n] = Append(@, <<op, n, get_data_center(n), val>>)]

\* a write of node n's scheduler invocation disturbs the node's resets
Disturbed(n) == [rdone EXCEPT ![n] = IF rpc[n] = "none" THEN 0 ELSE 0 - 1]

\* `for line in repair_steps: if not line: continue`: the next line at or
\* after i that is not empty, or Len + 1 when the loop is over (lines 267-269)
RECURSIVE NextLine(_, _)
NextLine(steps, i) ==
    IF i > Len(steps) THEN Len(steps) + 1
    ELSE IF steps[i] = Blank THEN NextLine(steps, i + 1) ELSE i

\* the environment may still act: start a process, fail a call, expire a record
Budget == invocations + resets + faults + expiries < MaxEvents

\* how a process ends: exit status "0", exit(1), or an uncaught exception
Exit(n, code) ==
    /\ pc' = [pc EXCEPT ![n] = "idle"]
    /\ exitcode' = [exitcode EXCEPT ![n] = code]
    /\ conn' = [conn EXCEPT ![n] = FALSE]
    /\ result' = [result EXCEPT ![n] = <<>>]
    /\ ret' = [ret EXCEPT ![n] = "none"]
    /\ repair_steps' = [repair_steps EXCEPT ![n] = <<>>]
    /\ line' = [line EXCEPT ![n] = 1]
    /\ log' = [log EXCEPT ![n] = <<>>]
    /\ racing' = [racing EXCEPT ![n] = FALSE]

Init ==
    /\ mutex = {}
    /\ status = [k \in Keys |-> NoRecord]
    /\ pc = [n \in Nodes |-> "idle"]
    /\ conn = [n \in Nodes |-> FALSE]
    /\ result = [n \in Nodes |-> <<>>]
    /\ ret = [n \in Nodes |-> "none"]
    /\ repair_steps = [n \in Nodes |-> <<>>]
    /\ line = [n \in Nodes |-> 1]
    /\ log = [n \in Nodes |-> <<>>]
    /\ exitcode = [n \in Nodes |-> "none"]
    /\ rpc = [n \in Nodes |-> "none"]
    /\ rdone = [n \in Nodes |-> 0]
    /\ racing = [n \in Nodes |-> FALSE]
    /\ stale = FALSE
    /\ cooled = {}
    /\ status_dict = [n \in Nodes |-> NoRow]
    /\ upc = "off"
    /\ uconn = FALSE
    /\ polled = <<>>
    /\ ui = 1
    /\ nodenames = <<>>
    /\ uj = 1
    /\ spc = "off"
    /\ pos = 0
    /\ size0 = 0
    /\ invocations = 0
    /\ resets = 0
    /\ faults = 0
    /\ expiries = 0

\* ---- main, without --reset and --watch (lines 503-520) ----------------------
Invoke(n) ==
    /\ pc[n] = "idle"
    /\ Budget
    /\ invocations' = invocations + 1
    /\ pc' = [pc EXCEPT ![n] = "GET_STATUS"]
    /\ conn' = [conn EXCEPT ![n] = TRUE]
    /\ exitcode' = [exitcode EXCEPT ![n] = "none"]
    /\ racing' = [racing EXCEPT ![n] = \E m \in Peers(n) : pc[m] \in AcquiringPCs]
    /\ UNCHANGED <<mutex, status, result, ret, repair_steps, line, log, resetvars,
                   stale, resets, faults, expiries>>
    /\ UNCHANGED offstage

\* check_should_run: the own-record gate (lines 208-216)
GetStatus(n) ==
    /\ pc[n] = "GET_STATUS"
    /\ LET rows == GET_STATUS(status, n, get_data_center(n)) IN
        /\ result' = [result EXCEPT ![n] = rows]
        /\ IF rows # <<>>
           THEN /\ ret' = [ret EXCEPT ![n] = "False"]
                /\ pc' = [pc EXCEPT ![n] = "CLOSE"]
           ELSE /\ ret' = ret
                /\ pc' = [pc EXCEPT ![n] = "GET_LOCAL_STATUS"]
    /\ UNCHANGED <<mutex, status, conn, repair_steps, line, log, racing, exitcode,
                   resetvars, stale, budgets>>
    /\ UNCHANGED offstage

\* mutant: the filter is inverted (== COMPLETED)
already_running_inverted(rows) == SelectSeq(rows, LAMBDA x : x[2] = COMPLETED)

\* mutant: only 'Started' counts as running, a step name does not
already_running_started_only(rows) == SelectSeq(rows, LAMBDA x : x[2] = STARTED)

\* `[x[0] for x in result if x[1] != COMPLETED]`
already_running(rows) == SelectSeq(rows, LAMBDA x : x[2] # COMPLETED)

\* check_should_run: the peer gate (lines 218-228)
GetLocalStatus(n) ==
    /\ pc[n] = "GET_LOCAL_STATUS"
    /\ LET rows == GET_LOCAL_STATUS(status, get_data_center(n)) IN
        /\ result' = [result EXCEPT ![n] = rows]
        /\ IF rows # <<>> /\ already_running(rows) # <<>>
           THEN /\ ret' = [ret EXCEPT ![n] = "False"]
                /\ pc' = [pc EXCEPT ![n] = "CLOSE"]
           ELSE /\ ret' = ret
                /\ pc' = [pc EXCEPT ![n] = "MUTEX_START"]
    /\ UNCHANGED <<mutex, status, conn, repair_steps, line, log, racing, exitcode,
                   resetvars, stale, budgets>>
    /\ UNCHANGED offstage

\* check_should_run: write the MutexRecord, then sleep (lines 229-235)
MutexStart(n) ==
    /\ pc[n] = "MUTEX_START"
    /\ mutex' = MUTEX_START(mutex, n, get_data_center(n))
    /\ log' = Logged(n, "MUTEX_START", "")
    /\ rdone' = Disturbed(n)
    /\ pc' = [pc EXCEPT ![n] = "MUTEX_CHECK"]
    /\ UNCHANGED <<status, conn, result, ret, repair_steps, line, racing, exitcode,
                   rpc, stale, budgets>>
    /\ UNCHANGED offstage

\* mutant: the rows of every data center are taken
mine_any_dc(rows, data_center) == rows

\* `[x[0] for x in result if x[1] == self.data_center]`
mine(rows, data_center) == SelectSeq(rows, LAMBDA x : x[2] = data_center)

\* mutant: any non-empty read wins, the name is not compared
Verdict_nonempty(rows, nodename, data_center) ==
    IF rows = <<>> THEN "lost"
    ELSE IF mine(rows, data_center) = <<>> THEN "IndexError"
    ELSE "won"

\* what line 239 decides: "lost" (cleanup, return False), "won" (return True)
\* or "IndexError" ([...][0] of an empty list)
Verdict(rows, nodename, data_center) ==
    IF rows = <<>> THEN "lost"
    ELSE IF mine(rows, data_center) = <<>> THEN "IndexError"
    ELSE IF mine(rows, data_center)[1][1] # nodename THEN "lost"
    ELSE "won"

\* check_should_run: the verifying read and its decision (lines 236-242)
MutexCheck(n) ==
    /\ pc[n] = "MUTEX_CHECK"
    /\ \E view \in WeakViews(mutex) :
        LET rows == MUTEX_CHECK(view)
            v == Verdict(rows, n, get_data_center(n))
        IN  /\ stale' = (stale \/ view # mutex)
            /\ IF v = "IndexError"
               THEN Exit(n, "traceback")
               ELSE /\ pc' = [pc EXCEPT ![n] =
                                IF v = "won" THEN "REPAIR_START" ELSE "MUTEX_CLEANUP"]
                    /\ ret' = [ret EXCEPT ![n] = IF v = "won" THEN "True" ELSE @]
                    /\ result' = [result EXCEPT ![n] = rows]
                    /\ UNCHANGED <<conn, repair_steps, line, log, racing, exitcode>>
    /\ UNCHANGED <<mutex, status, resetvars, budgets>>
    /\ UNCHANGED offstage

\* mutant: main goes on to claim_repair whatever check_should_run returned
MutexCleanup_then_claim(n) ==
    /\ pc[n] = "MUTEX_CLEANUP"
    /\ mutex' = MUTEX_CLEANUP(mutex, n, get_data_center(n))
    /\ log' = Logged(n, "MUTEX_CLEANUP", "")
    /\ ret' = [ret EXCEPT ![n] = "False"]
    /\ pc' = [pc EXCEPT ![n] = "REPAIR_START"]
    /\ UNCHANGED <<status, conn, result, repair_steps, line, racing, exitcode,
                   resetvars, stale, budgets>>
    /\ UNCHANGED offstage

\* check_should_run: the lease is lost, delete our MutexRecord (lines 240-241)
MutexCleanup(n) ==
    /\ pc[n] = "MUTEX_CLEANUP"
    /\ mutex' = MUTEX_CLEANUP(mutex, n, get_data_center(n))
    /\ log' = Logged(n, "MUTEX_CLEANUP", "")
    /\ ret' = [ret EXCEPT ![n] = "False"]
    /\ pc' = [pc EXCEPT ![n] = "CLOSE"]
    /\ UNCHANGED <<status, conn, result, repair_steps, line, racing, exitcode,
                   resetvars, stale, budgets>>
    /\ UNCHANGED offstage

\* line 240 uses query, not query_or_die: its exception is not caught
MutexCleanupFail(n) ==
    /\ pc[n] = "MUTEX_CLEANUP"
    /\ Budget
    /\ faults' = faults + 1
    /\ Exit(n, "traceback")
    /\ UNCHANGED <<mutex, status, resetvars, stale, invocations, resets, expiries>>
    /\ UNCHANGED offstage

\* mutant: the dying invocation removes its MutexRecord first
QueryOrDieFail_cleanup(n) ==
    /\ pc[n] \in QueryOrDiePCs
    /\ Budget
    /\ faults' = faults + 1
    /\ Exit(n, "1")
    /\ mutex' = MUTEX_CLEANUP(mutex, n, get_data_center(n))
    /\ UNCHANGED <<status, resetvars, stale, invocations, resets, expiries>>
    /\ UNCHANGED offstage

\* query_or_die: the query raises, log and exit(1) (lines 164-168)
QueryOrDieFail(n) ==
    /\ pc[n] \in QueryOrDiePCs
    /\ Budget
    /\ faults' = faults + 1
    /\ Exit(n, "1")
    /\ UNCHANGED <<mutex, status, resetvars, stale, invocations, resets, expiries>>
    /\ UNCHANGED offstage

\* ---- claim_repair (lines 244-255) -------------------------------------------
\* mutant: the MutexRecord is dropped first, 'Started' is written afterwards
RepairStart_mutex_first(n) ==
    /\ pc[n] = "REPAIR_START"
    /\ mutex' = MUTEX_CLEANUP(mutex, n, get_data_center(n))
    /\ log' = Logged(n, "MUTEX_CLEANUP", "")
    /\ rdone' = Disturbed(n)
    /\ result' = [result EXCEPT ![n] = <<>>]
    /\ pc' = [pc EXCEPT ![n] = "CLAIM_MUTEX_CLEANUP"]
    /\ UNCHANGED <<status, conn, ret, repair_steps, line, racing, exitcode, rpc,
                   stale, budgets>>
    /\ UNCHANGED offstage

RepairStart(n) ==
    /\ pc[n] = "REPAIR_START"
    /\ status' = REPAIR_START(status, n, get_data_center(n))
    /\ log' = Logged(n, "REPAIR_START", STARTED)
    /\ rdone' = Disturbed(n)
    /\ result' = [result EXCEPT ![n] = <<>>]
    /\ pc' = [pc EXCEPT ![n] = "CLAIM_MUTEX_CLEANUP"]
    /\ UNCHANGED <<mutex, conn, ret, repair_steps, line, racing, exitcode, rpc,
                   stale, budgets>>
    /\ UNCHANGED offstage

\* drop the MutexRecord, then self.close()
ClaimMutexCleanup(n) ==
    /\ pc[n] = "CLAIM_MUTEX_CLEANUP"
    /\ mutex' = MUTEX_CLEANUP(mutex, n, get_data_center(n))
    /\ log' = Logged(n, "MUTEX_CLEANUP", "")
    /\ conn' = [conn EXCEPT ![n] = FALSE]
    /\ pc' = [pc EXCEPT ![n] = "PLAN"]
    /\ UNCHANGED <<status, result, ret, repair_steps, line, racing, exitcode,
                   resetvars, stale, budgets>>
    /\ UNCHANGED offstage

\* ---- run_repair (lines 257-286) ---------------------------------------------
\* where the loop goes once line i is reached
LoopPC(steps, i) == IF i > Len(steps) THEN "COMPLETED_UPDATE" ELSE "REPAIR_UPDATE"

\* subprocess.check_output(cmd).split('\n'), then the loop head
GetRepairSteps(n) ==
    /\ pc[n] = "PLAN"
    /\ \E p \in Plans :
        LET steps == PlanOutput(p) IN
        /\ repair_steps' = [repair_steps EXCEPT ![n] = steps]
        /\ line' = [line EXCEPT ![n] = NextLine(steps, 1)]
        /\ pc' = [pc EXCEPT ![n] = LoopPC(steps, NextLine(steps, 1))]
    /\ log' = Logged(n, "check_output", "")
    /\ UNCHANGED <<mutex, status, conn, result, ret, racing, exitcode, resetvars,
                   stale, budgets>>
    /\ UNCHANGED offstage

\* the planner cannot be run or exits non-zero: check_output raises
GetRepairStepsFail(n) ==
    /\ pc[n] = "PLAN"
    /\ Budget
    /\ faults' = faults + 1
    /\ Exit(n, "traceback")
    /\ UNCHANGED <<mutex, status, resetvars, stale, invocations, resets, expiries>>
    /\ UNCHANGED offstage

\* mutant: the step name is always taken from the first line
step_first(steps, i) == steps[1][1]

\* `step, repair_command = line.split(" ", 1)`
step(steps, i) == steps[i][1]
repair_command(steps, i) == steps[i][2]

\* self.close() (lines 198-202): None has no close(), so it raises when the
\* connection is not open
CloseRaises(open) == ~open

\* lines 271-277, the status write succeeds; then close()
RepairUpdate(n) ==
    /\ pc[n] = "REPAIR_UPDATE"
    /\ status' = REPAIR_UPDATE(status, n, get_data_center(n),
                               step(repair_steps[n], line[n]))
    /\ log' = Logged(n, "REPAIR_UPDATE", step(repair_steps[n], line[n]))
    /\ rdone' = Disturbed(n)
    /\ conn' = [conn EXCEPT ![n] = FALSE]
    /\ pc' = [pc EXCEPT ![n] = "COMMAND"]
    /\ UNCHANGED <<mutex, result, ret, repair_steps, line, racing, exitcode, rpc,
                   stale, budgets>>
    /\ UNCHANGED offstage

\* lines 271-277, the connection is re-opened but the statement fails: the
\* exception is swallowed, close() closes the open connection
RepairUpdateQueryFail(n) ==
    /\ pc[n] = "REPAIR_UPDATE"
    /\ Budget
    /\ faults' = faults + 1
    /\ conn' = [conn EXCEPT ![n] = FALSE]
    /\ pc' = [pc EXCEPT ![n] = "COMMAND"]
    /\ UNCHANGED <<mutex, status, result, ret, repair_steps, line, log, racing,
                   exitcode, resetvars, stale, invocations, resets, expiries>>
    /\ UNCHANGED offstage

\* lines 271-277, standard_connection fails inside query: the exception is
\* swallowed with self.conn still None, and close() on line 277 is outside
\* the try
RepairUpdateConnectFail(n) ==
    /\ pc[n] = "REPAIR_UPDATE"
    /\ ~conn[n]
    /\ Budget
    /\ faults' = faults + 1
    /\ IF CloseRaises(conn[n])
       THEN Exit(n, "traceback")
       ELSE /\ pc' = [pc EXCEPT ![n] = "COMMAND"]
            /\ UNCHANGED <<locals, exitcode>>
    /\ UNCHANGED <<mutex, status, resetvars, stale, invocations, resets, expiries>>
    /\ UNCHANGED offstage

\* subprocess.call(repair_command, shell=True) starts the command
CommandStart(n) ==
    /\ pc[n] = "COMMAND"
    /\ log' = Logged(n, "call", repair_command(repair_steps[n], line[n]))
    /\ pc' = [pc EXCEPT ![n] = "WAIT"]
    /\ UNCHANGED <<mutex, status, conn, result, ret, repair_steps, line, racing,
                   exitcode, resetvars, stale, budgets>>
    /\ UNCHANGED offstage

ExitStatus == {0, 1}

\* mutant: a command that fails ends the loop
AfterCommand_abort(steps, i, rc) ==
    IF rc # 0 THEN Len(steps) + 1 ELSE NextLine(steps, i + 1)

\* mutant: a command that fails is tried again
AfterCommand_retry(steps, i, rc) ==
    IF rc # 0 THEN i ELSE NextLine(steps, i + 1)

\* what the loop does with the exit status rc of line i: nothing, it goes
\* on to the next non-empty line
AfterCommand(steps, i, rc) == NextLine(steps, i + 1)

\* ... and the command returns
CommandReturn(n) ==
    /\ pc[n] = "WAIT"
    /\ \E rc \in ExitStatus :
        LET next == AfterCommand(repair_steps[n], line[n], rc) IN
        /\ line' = [line EXCEPT ![n] = next]
        /\ pc' = [pc EXCEPT ![n] = LoopPC(repair_steps[n], next)]
    /\ UNCHANGED <<mutex, status, conn, result, ret, repair_steps, log, racing,
                   exitcode, resetvars, stale, budgets>>
    /\ UNCHANGED offstage

\* lines 280-286, the final write succeeds
CompletedUpdate(n) ==
    /\ pc[n] = "COMPLETED_UPDATE"
    /\ status' = REPAIR_UPDATE(status, n, get_data_center(n), COMPLETED)
    /\ log' = Logged(n, "REPAIR_UPDATE", COMPLETED)
    /\ rdone' = Disturbed(n)
    /\ conn' = [conn EXCEPT ![n] = TRUE]
    /\ pc' = [pc EXCEPT ![n] = "CLOSE"]
    /\ UNCHANGED <<mutex, result, ret, repair_steps, line, racing, exitcode, rpc,
                   stale, budgets>>
    /\ UNCHANGED offstage

\* lines 280-286, the final write fails and is swallowed: either the
\* statement fails on a re-opened connection, or the connection stays closed
CompletedUpdateFail(n) ==
    /\ pc[n] = "COMPLETED_UPDATE"
    /\ Budget
    /\ faults' = faults + 1
    /\ \E reopened \in BOOLEAN : conn' = [conn EXCEPT ![n] = reopened]
    /\ pc' = [pc EXCEPT ![n] = "CLOSE"]
    /\ UNCHANGED <<mutex, status, result, ret, repair_steps, line, log, racing,
                   exitcode, resetvars, stale, invocations, resets, expiries>>
    /\ UNCHANGED offstage

\* main, line 518: connection.close(), then the process ends
Close(n) ==
    /\ pc[n] = "CLOSE"
    /\ IF CloseRaises(conn[n]) THEN Exit(n, "traceback") ELSE Exit(n, "0")
    /\ UNCHANGED <<mutex, status, resetvars, stale, budgets>>
    /\ UNCHANGED offstage

\* ---- main --reset: reset_repair_status (lines 288-293, 508-510) -------------
ResetStart(n) ==
    /\ rpc[n] = "none"
    /\ Budget
    /\ resets' = resets + 1
    /\ rpc' = [rpc EXCEPT ![n] = "MUTEX_CLEANUP"]
    /\ UNCHANGED <<mutex, status, pc, locals, exitcode, rdone, stale, invocations,
                   faults, expiries>>
    /\ UNCHANGED offstage

ResetMutexCleanup(n) ==
    /\ rpc[n] = "MUTEX_CLEANUP"
    /\ mutex' = MUTEX_CLEANUP(mutex, n, get_data_center(n))
    /\ rpc' = [rpc EXCEPT ![n] = "REPAIR_CLEANUP"]
    /\ UNCHANGED <<status, pc, locals, exitcode, rdone, stale, budgets>>
    /\ UNCHANGED offstage

ResetRepairCleanup(n) ==
    /\ rpc[n] = "REPAIR_CLEANUP"
    /\ status' = REPAIR_CLEANUP(status, n, get_data_center(n))
    /\ rpc' = [rpc EXCEPT ![n] = "none"]
    /\ rdone' = [rdone EXCEPT ![n] = IF @ < 0 THEN 0 ELSE @ + 1]
    /\ UNCHANGED <<mutex, pc, locals, exitcode, stale, budgets>>
    /\ UNCHANGED offstage

\* either delete raises (plain query): the reset ends there
ResetFail(n) ==
    /\ rpc[n] # "none"
    /\ Budget
    /\ faults' = faults + 1
    /\ rpc' = [rpc EXCEPT ![n] = "none"]
    /\ rdone' = [rdone EXCEPT ![n] = 0]
    /\ UNCHANGED <<mutex, status, pc, locals, exitcode, stale, invocations, resets,
                   expiries>>
    /\ UNCHANGED offstage

\* ---- the store: USING TTL (lines 72-73, 78-81) ------------------------------
ExpireMutex(k) ==
    /\ k \in mutex
    /\ Budget
    /\ expiries' = expiries + 1
    /\ mutex' = mutex \ {k}
    /\ UNCHANGED <<status, pc, locals, exitcode, resetvars, stale, invocations,
                   resets, faults>>
    /\ UNCHANGED offstage

ExpireStatus(k) ==
    /\ status[k] # NoRecord
    /\ Budget
    /\ expiries' = expiries + 1
    /\ status' = [status EXCEPT ![k] = NoRecord]
    /\ UNCHANGED <<mutex, pc, locals, exitcode, resetvars, stale, invocations,
                   resets, faults>>
    /\ cooled' = IF status[k] = COMPLETED THEN cooled \cup {k[1]} ELSE cooled
    /\ UNCHANGED watchvars

Next ==
    \/ \E n \in Nodes : Invoke(n)
    \/ \E n \in Nodes : GetStatus(n)
    \/ \E n \in Nodes : GetLocalStatus(n)
    \/ \E n \in Nodes : MutexStart(n)
    \/ \E n \in Nodes : MutexCheck(n)
    \/ \E n \in Nodes : MutexCleanup(n)
    \/ \E n \in Nodes : MutexCleanupFail(n)
    \/ \E n \in Nodes : QueryOrDieFail(n)
    \/ \E n \in Nodes : RepairStart(n)
    \/ \E n \in Nodes : ClaimMutexCleanup(n)
    \/ \E n \in Nodes : GetRepairSteps(n)
    \/ \E n \in Nodes : GetRepairStepsFail(n)
    \/ \E n \in Nodes : RepairUpdate(n)
    \/ \E n \in Nodes : RepairUpdateQueryFail(n)
    \/ \E n \in Nodes : RepairUpdateConnectFail(n)
    \/ \E n \in Nodes : CommandStart(n)
    \/ \E n \in Nodes : CommandReturn(n)
    \/ \E n \in Nodes : CompletedUpdate(n)
    \/ \E n \in Nodes : CompletedUpdateFail(n)
    \/ \E n \in Nodes : Close(n)
    \/ \E n \in Nodes : ResetStart(n)
    \/ \E n \in Nodes : ResetMutexCleanup(n)
    \/ \E n \in Nodes : ResetRepairCleanup(n)
    \/ \E n \in Nodes : ResetFail(n)
    \/ \E k \in Keys : ExpireMutex(k)
    \/ \E k \in Keys : ExpireStatus(k)

Spec == Init /\ [][Next]_vars

\* ---- main --watch: status_update_loop (lines 295-313) ----------------------
\* a dictionary is a function on the nodenames; NoRow marks a missing key
KeysOf(d) == {n \in Nodes : d[n] # NoRow}

\* the slots of the dictionary in the order its iterator visits them
SlotOrder == <<"n1", "n2", "n3">>

\* new_names once the rows before index i are stored
new_names(rows, i) == [j \in 1..(i - 1) |-> rows[j][1]]

\* mutant: `if nodename in new_names`
Unreported_inverted(nodename, seen) == \E j \in 1..Len(seen) : seen[j] = nodename

\* `if not nodename in new_names` (line 310)
Unreported(nodename, seen) == ~ \E j \in 1..Len(seen) : seen[j] = nodename

\* curses.wrapper(watch, connection): both threads are started on an empty
\* dictionary (lines 404-415)
WatchStart ==
    /\ upc = "off" /\ spc = "off"
    /\ upc' = "QUERY"
    /\ spc' = "START"
    /\ uconn' = TRUE
    /\ UNCHANGED <<status_dict, polled, ui, nodenames, uj, pos, size0>>
    /\ UNCHANGED <<status, schedvars, budgets>>

\* a poll cycle begins: new_names = [], get_all_status() answers (lines 304-305)
GetAllStatus ==
    /\ upc = "QUERY"
    /\ \E view \in WeakStatusViews(status) :
        /\ polled' = GET_ALL_STATUS(view)
        /\ upc' = IF GET_ALL_STATUS(view) = <<>> THEN "KEYS" ELSE "INSERT"
    /\ uconn' = TRUE
    /\ UNCHANGED <<status_dict, ui, nodenames, uj, spc, pos, size0>>
    /\ UNCHANGED <<status, schedvars, budgets>>

\* get_all_status, lines 190-195: the query raises; close() and try again,
\* unless the connection could not be opened, where close() itself raises
\* inside the handler and the thread dies
GetAllStatusFail ==
    /\ upc = "QUERY"
    /\ Budget
    /\ faults' = faults + 1
    /\ \E opened \in BOOLEAN :
        IF CloseRaises(uconn \/ opened)
        THEN upc' = "dead" /\ uconn' = uconn
        ELSE upc' = "QUERY" /\ uconn' = FALSE
    /\ UNCHANGED <<status_dict, polled, ui, nodenames, uj, spc, pos, size0>>
    /\ UNCHANGED <<status, schedvars, invocations, resets, expiries>>

\* `status_dict[row[0]] = row; new_names.append(row[0])` (lines 306-307)
StoreRow ==
    /\ upc = "INSERT"
    /\ status_dict' = [status_dict EXCEPT ![polled[ui][1]] = polled[ui]]
    /\ ui' = ui + 1
    /\ upc' = IF ui = Len(polled) THEN "KEYS" ELSE "INSERT"
    /\ UNCHANGED <<uconn, polled, nodenames, uj, spc, pos, size0>>
    /\ UNCHANGED <<status, schedvars, budgets>>

\* `for nodename in status_dict.keys()`: the list of keys is built (line 309)
TakeKeys ==
    /\ upc = "KEYS"
    /\ nodenames' = SelectSeq(SlotOrder, LAMBDA n : n \in KeysOf(status_dict))
    /\ upc' = IF KeysOf(status_dict) = {} THEN "SLEEP" ELSE "DELETE"
    /\ UNCHANGED <<status_dict, uconn, polled, ui, uj, spc, pos, size0>>
    /\ UNCHANGED <<status, schedvars, budgets>>

\* `if not nodename in new_names: del status_dict[nodename]` (line 310)
DropRow ==
    /\ upc = "DELETE"
    /\ status_dict' =
          IF Unreported(nodenames[uj], new_names(polled, ui))
          THEN [status_dict EXCEPT ![nodenames[uj]] = NoRow]
          ELSE status_dict
    /\ uj' = uj + 1
    /\ upc' = IF uj = Len(nodenames) THEN "SLEEP" ELSE "DELETE"
    /\ UNCHANGED <<uconn, polled, ui, nodenames, spc, pos, size0>>
    /\ UNCHANGED <<status, schedvars, budgets>>

\* time.sleep(delta_time), then the next cycle with fresh locals
\* (lines 302-304, 311-313)
UpdateSleep ==
    /\ upc = "SLEEP"
    /\ upc' = "QUERY"
    /\ polled' = <<>>
    /\ ui' = 1
    /\ nodenames' = <<>>
    /\ uj' = 1
    /\ UNCHANGED <<status_dict, uconn, spc, pos, size0>>
    /\ UNCHANGED <<status, schedvars, budgets>>

\* ---- main --watch: screen_update_loop (lines 341-397) ----------------------
updatervars == <<status_dict, upc, uconn, polled, ui, nodenames, uj>>

\* a pass begins: `for row in status_dict` creates the iterator, which
\* remembers the size of the dictionary (lines 357-363)
BeginPass ==
    /\ spc = "START"
    /\ pos' = 0
    /\ size0' = Cardinality(KeysOf(status_dict))
    /\ spc' = "NEXT"
    /\ UNCHANGED updatervars
    /\ UNCHANGED <<status, schedvars, budgets>>

\* the slots after slot p that hold a key
SlotsAfter(d, p) == {q \in (p + 1)..Len(SlotOrder) : SlotOrder[q] \in KeysOf(d)}
Least(S) == CHOOSE q \in S : \A r \in S : q <= r

\* the iterator is asked for the next key: it raises RuntimeError when the
\* dictionary has changed size, else it yields the key of the next used slot
NextKey ==
    /\ spc = "NEXT"
    /\ IF Cardinality(KeysOf(status_dict)) # size0
       THEN spc' = "RuntimeError" /\ pos' = pos
       ELSE IF SlotsAfter(status_dict, pos) = {}
            THEN spc' = "DRAW" /\ pos' = pos
            ELSE spc' = "TEST" /\ pos' = Least(SlotsAfter(status_dict, pos))
    /\ size0' = size0
    /\ UNCHANGED updatervars
    /\ UNCHANGED <<status, schedvars, budgets>>

\* `status_dict[row]` raises KeyError when the key is gone
Lookup(d, row, then) == IF row \notin KeysOf(d) THEN "KeyError" ELSE then

\* `if status_dict[row][2] == COMPLETED` (line 364): the first lookup
TestRow ==
    /\ spc = "TEST"
    /\ spc' = Lookup(status_dict, SlotOrder[pos], "APPEND")
    /\ UNCHANGED <<pos, size0>>
    /\ UNCHANGED updatervars
    /\ UNCHANGED <<status, schedvars, budgets>>

\* `complete_data.append(status_dict[row])` or
\* `display_data.append(status_dict[row])` (lines 365-367): the second lookup
AppendRow ==
    /\ spc = "APPEND"
    /\ spc' = Lookup(status_dict, SlotOrder[pos], "NEXT")
    /\ UNCHANGED <<pos, size0>>
    /\ UNCHANGED updatervars
    /\ UNCHANGED <<status, schedvars, budgets>>

\* the lists are drawn, the thread sleeps and starts over (lines 369-397)
Draw ==
    /\ spc = "DRAW"
    /\ spc' = "START"
    /\ pos' = 0
    /\ size0' = 0
    /\ UNCHANGED updatervars
    /\ UNCHANGED <<status, schedvars, budgets>>

\* key 'q' (line 420): watch returns and the process ends with its threads
Quit ==
    /\ upc # "off"
    /\ upc' = "off" /\ spc' = "off" /\ uconn' = FALSE
    /\ status_dict' = [n \in Nodes |-> NoRow]
    /\ polled' = <<>> /\ ui' = 1 /\ nodenames' = <<>> /\ uj' = 1
    /\ pos' = 0 /\ size0' = 0
    /\ UNCHANGED <<status, schedvars, budgets>>

\* ---- the schedulers of the fleet, as the watching process sees them --------
\* some node's claim_repair writes 'Started' (lines 247-249)
RemoteStart(n) ==
    /\ status[Key(n)] = NoRecord
    /\ Budget
    /\ invocations' = invocations + 1
    /\ status' = REPAIR_START(status, n, get_data_center(n))
    /\ UNCHANGED <<schedvars, watchvars, resets, faults, expiries>>

\* some node's run_repair writes 'Completed' (lines 280-285)
RemoteUpdate(n) ==
    /\ status[Key(n)] \notin {NoRecord, COMPLETED}
    /\ status' = REPAIR_UPDATE(status, n, get_data_center(n), COMPLETED)
    /\ UNCHANGED <<schedvars, watchvars, budgets>>

WatchNext ==
    \/ WatchStart
    \/ GetAllStatus
    \/ GetAllStatusFail
    \/ StoreRow
    \/ TakeKeys
    \/ DropRow
    \/ UpdateSleep
    \/ BeginPass
    \/ NextKey
    \/ TestRow
    \/ AppendRow
    \/ Draw
    \/ Quit
    \/ \E n \in Nodes : RemoteStart(n)
    \/ \E n \in Nodes : RemoteUpdate(n)
    \/ \E k \in Keys : ExpireStatus(k)

WatchSpec == Init /\ [][WatchNext]_vars

\* A process that is not waiting for anything takes its next step: every
\* store call returns, and so do the planner and the repair commands.
Proceed(n) ==
    \/ GetStatus(n) \/ GetLocalStatus(n) \/ MutexStart(n) \/ MutexCheck(n)
    \/ MutexCleanup(n) \/ RepairStart(n) \/ ClaimMutexCleanup(n)
    \/ GetRepairSteps(n) \/ RepairUpdate(n) \/ CommandStart(n)
    \/ CommandReturn(n) \/ CompletedUpdate(n) \/ Close(n)
    \/ ResetMutexCleanup(n) \/ ResetRepairCleanup(n)

FairSpec == Spec /\ \A n \in Nodes : WF_vars(Proceed(n))

\* ---- properties -------------------------------------------------------------
SameDC(a, b) == a # b /\ get_data_center(a) = get_data_center(b)

\* node n's invocation took a step that was not the exit(1) of query_or_die
Stepped(n) == pc'[n] # pc[n] /\ exitcode'[n] # "1"

\* the nodenames of the rows of data center dc
Names(rows, dc) == {rows[i][1] : i \in {j \in 1..Len(rows) : rows[j][2] = dc}}

\* C1 (as claimed): with reads that reflect every completed write, and only
\* scheduler invocations acting (no reset, no TTL expiry), two distinct nodes
\* of one data center are never RUNNING at once.
C1_MutualExclusion ==
    \A a, b \in Nodes :
        (SameDC(a, b) /\ ~stale /\ resets = 0 /\ expiries = 0)
            => ~(RUNNING(a) /\ RUNNING(b))

\* C1 (amended): with no reset and no TTL expiry, two distinct nodes of one
\* data center are RUNNING at once only if one of the two invocations began
\* while the other was between its own-status read and its 'Started' write.
C1_MutualExclusionSequential ==
    \A a, b \in Nodes :
        (SameDC(a, b) /\ resets = 0 /\ expiries = 0 /\ RUNNING(a) /\ RUNNING(b))
            => (racing[a] \/ racing[b])

\* a node that began after its peer had written 'Started' is turned away
C1_Witness ==
    \E a, b \in Nodes :
        /\ SameDC(a, b) /\ resets = 0 /\ expiries = 0
        /\ RUNNING(a) /\ ~racing[a]
        /\ pc[b] = "CLOSE" /\ ret[b] = "False" /\ ~racing[b]

\* C2: when the calling node has a StatusRecord, whatever its value, the
\* own-status read makes check_should_run return False with no MutexRecord
\* written: the invocation goes straight to the end of main.
C2_OwnRecordGate ==
    [][\A n \in Nodes :
        (pc[n] = "GET_STATUS" /\ Stepped(n) /\ status[Key(n)] # NoRecord)
            => (/\ ret'[n] = "False"
                /\ pc'[n] = "CLOSE"
                /\ log'[n] = <<>>
                /\ mutex' = mutex
                /\ status' = status)]_vars

\* scenario 2: the node's own record is 'Completed' and still there
C2_Witness ==
    \E n \in Nodes :
        /\ pc[n] = "CLOSE" /\ ret[n] = "False" /\ log[n] = <<>>
        /\ result[n] = << <<COMPLETED>> >>
        /\ status[Key(n)] = COMPLETED

\* some other node of n's data center has a status that is not 'Completed'
PeerActive(n) ==
    \E k \in Keys : /\ k[1] # n /\ k[2] = get_data_center(n)
                    /\ status[k] \notin {NoRecord, COMPLETED}

\* C3: when a node without a StatusRecord of its own reads the statuses of
\* its data center and another node's status is not 'Completed',
\* check_should_run returns False and no MutexRecord is written.
C3_PeerGate ==
    [][\A n \in Nodes :
        (/\ pc[n] = "GET_LOCAL_STATUS" /\ Stepped(n)
         /\ status[Key(n)] = NoRecord /\ PeerActive(n))
            => (/\ ret'[n] = "False"
                /\ pc'[n] = "CLOSE"
                /\ log'[n] = <<>>
                /\ mutex' = mutex
                /\ status' = status)]_vars

\* scenario 3: the peer is in the middle of its plan
C3_Witness ==
    \E n \in Nodes : \E m \in Peers(n) :
        /\ pc[n] = "CLOSE" /\ ret[n] = "False" /\ log[n] = <<>>
        /\ status[Key(n)] = NoRecord
        /\ status[Key(m)] = StepNames[1]
        /\ result[n] = << <<m, StepNames[1]>> >>

\* the invocation of n holds the rows of its verifying read
HasVerified(n) ==
    /\ pc[n] \in {"MUTEX_CLEANUP", "REPAIR_START", "CLOSE"}
    /\ log[n] # <<>>
    /\ result[n] # <<>>

\* C4: a node whose verifying read shows, for its data center, records
\* naming other nodes and none naming itself loses: it returns False and its
\* own MutexRecord is deleted; a node whose verifying read shows, for its
\* data center, only its own record wins and goes on to write 'Started'.
C4_LeaseLoss ==
    \A n \in Nodes :
        HasVerified(n) =>
            LET names == Names(result[n], get_data_center(n)) IN
            /\ (names # {} /\ n \notin names)
                  => /\ ret[n] # "True"
                     /\ pc[n] \in {"MUTEX_CLEANUP", "CLOSE"}
                     /\ pc[n] = "CLOSE" => (ret[n] = "False" /\ Key(n) \notin mutex)
            /\ names = {n} => (ret[n] = "True" /\ pc[n] = "REPAIR_START")

\* scenario 4: both wrote, both reads show only B's record
C4_Witness ==
    \E a, b \in Nodes :
        /\ SameDC(a, b)
        /\ pc[a] = "CLOSE" /\ ret[a] = "False" /\ Key(a) \notin mutex
        /\ log[a] = << <<"MUTEX_START", a, get_data_center(a), "">>,
                      <<"MUTEX_CLEANUP", a, get_data_center(a), "">> >>
        /\ result[a] = << <<b, get_data_center(b)>> >>
        /\ pc[b] = "REPAIR_START" /\ ret[b] = "True"
        /\ result[b] = << <<b, get_data_center(b)>> >>

\* C5 (as claimed): a verifying read that returns no record of the node's
\* data center is a failed acquisition, not a crash: whatever the read
\* returns the invocation goes on (to the cleanup or to the claim), and when
\* the table holds no record of the data center it goes to the cleanup.
C5_MissingRecordIsFailure ==
    [][\A n \in Nodes :
        (pc[n] = "MUTEX_CHECK" /\ Stepped(n))
            => /\ pc'[n] \in {"MUTEX_CLEANUP", "REPAIR_START"}
               /\ {k \in mutex : k[2] = get_data_center(n)} = {}
                     => pc'[n] = "MUTEX_CLEANUP"]_vars

\* the lines of the plan that are not empty, in order
PlanSteps(steps) == SelectSeq(steps, LAMBDA l : l # Blank)

Ev(n, op, val) == <<op, n, get_data_center(n), val>>

RECURSIVE StepEvents(_, _)
\* status write, then command, for every step of the plan
StepEvents(n, ps) ==
    IF ps = <<>> THEN <<>>
    ELSE <<Ev(n, "REPAIR_UPDATE", ps[1][1]), Ev(n, "call", ps[1][2])>>
            \o StepEvents(n, Tail(ps))

\* everything a successful invocation does, in order
FullRun(n, steps) ==
    <<Ev(n, "MUTEX_START", ""), Ev(n, "REPAIR_START", STARTED),
      Ev(n, "MUTEX_CLEANUP", ""), Ev(n, "check_output", "")>>
        \o StepEvents(n, PlanSteps(steps))
        \o <<Ev(n, "REPAIR_UPDATE", COMPLETED)>>

IsPrefix(s, t) == Len(s) <= Len(t) /\ s = SubSeq(t, 1, Len(s))

PlannedPCs == {"REPAIR_UPDATE", "COMMAND", "WAIT", "COMPLETED_UPDATE"}

\* C6: with no failing call, an invocation that acquired the lease writes
\* the statuses Started, s1, ..., sn, Completed in that order and nothing
\* else, each si right before command ci is called, and 'Completed' only
\* when no command is left: its writes and calls are at every moment a
\* prefix of the full run, the full run once run_repair has returned, and
\* no 'Completed' is written while a step is in progress.
C6_StatusLifecycle ==
    \A n \in Nodes :
        faults = 0 =>
            /\ pc[n] \in PlannedPCs
                 => /\ IsPrefix(log[n], FullRun(n, repair_steps[n]))
                    /\ log[n] # FullRun(n, repair_steps[n])
            /\ pc[n] = "WAIT"
                 => log[n][Len(log[n])] =
                        Ev(n, "call", repair_command(repair_steps[n], line[n]))
            /\ (pc[n] = "CLOSE" /\ ret[n] = "True")
                 => log[n] = FullRun(n, repair_steps[n])

\* scenario 1: Started -> range1 -> range2 -> Completed
C6_Witness ==
    \E n \in Nodes :
        /\ faults = 0 /\ pc[n] = "CLOSE" /\ ret[n] = "True"
        /\ status[Key(n)] = COMPLETED
        /\ log[n] = <<Ev(n, "MUTEX_START", ""), Ev(n, "REPAIR_START", "Started"),
                      Ev(n, "MUTEX_CLEANUP", ""), Ev(n, "check_output", ""),
                      Ev(n, "REPAIR_UPDATE", "range1"), Ev(n, "call", "cmd1"),
                      Ev(n, "REPAIR_UPDATE", "range2"), Ev(n, "call", "cmd2"),
                      Ev(n, "REPAIR_UPDATE", "Completed")>>

\* C7 (as claimed): whatever happens to a status write of run_repair, the
\* run goes on: from the loop and from the final write the invocation only
\* moves on to the command, the next line, the final write and the end of
\* main.
C7_BestEffortAdvance ==
    [][\A n \in Nodes :
        (pc[n] \in PlannedPCs /\ pc'[n] # pc[n])
            => pc'[n] \in PlannedPCs \cup {"CLOSE"}]_vars

\* C8 (as claimed): a reset that completes leaves the node with neither a
\* MutexRecord nor a StatusRecord, whatever the node's invocation is doing.
C8_ResetLeavesNoRecords ==
    [][\A n \in Nodes :
        (rpc[n] = "REPAIR_CLEANUP" /\ rpc'[n] = "none" /\ faults' = faults)
            => (Key(n) \notin mutex' /\ status'[Key(n)] = NoRecord)]_vars

\* C8 (amended): once a reset of a node has completed with no write of the
\* node's own scheduler invocation since the reset began, the node has
\* neither record, and so it is after a second such reset.
C8_ResetUndisturbed ==
    \A n \in Nodes :
        rdone[n] >= 1 => (Key(n) \notin mutex /\ status[Key(n)] = NoRecord)

\* two resets in a row of a node whose invocation is in the middle of a run
C8_Witness ==
    \E n \in Nodes : rdone[n] = 2 /\ pc[n] = "WAIT"

\* the commands called so far
Calls(n) ==
    LET cs == SelectSeq(log[n], LAMBDA e : e[1] = "call")
    IN  [i \in 1..Len(cs) |-> cs[i][4]]

\* the commands of the plan
PlanCommands(steps) ==
    LET ps == PlanSteps(steps) IN [i \in 1..Len(ps) |-> ps[i][2]]

\* the commands of the lines before line i
Before(steps, i) == PlanCommands(SubSeq(steps, 1, i - 1))

\* C9: the commands are called in plan order, each once: before the status
\* write of a line exactly the commands of the earlier lines have been
\* called, while a command runs it is the last one called, and when the loop
\* is over every command of the plan has been called, whatever the exit
\* statuses were.
C9_EveryCommandOnce ==
    \A n \in Nodes :
        /\ pc[n] \in {"REPAIR_UPDATE", "COMMAND"}
              => Calls(n) = Before(repair_steps[n], line[n])
        /\ pc[n] = "WAIT"
              => Calls(n) = Before(repair_steps[n], line[n] + 1)
        /\ (pc[n] = "COMPLETED_UPDATE" \/ (pc[n] = "CLOSE" /\ ret[n] = "True"))
              => Calls(n) = PlanCommands(repair_steps[n])

C9_Witness ==
    \E n \in Nodes :
        /\ pc[n] = "CLOSE" /\ ret[n] = "True"
        /\ Calls(n) = <<"cmd1", "cmd2">>

\* C10: a step of a node's scheduler invocation or reset changes no
\* MutexRecord and no StatusRecord but the node's own.
C10_Ownership ==
    [][\A n \in Nodes :
        (pc'[n] # pc[n] \/ rpc'[n] # rpc[n])
            => \A k \in Keys \ {Key(n)} :
                  (k \in mutex' <=> k \in mutex) /\ status'[k] = status[k]]_vars

\* a node has written its status and deleted its MutexRecord while the
\* MutexRecord of a peer is in the table
C10_Witness ==
    \E n, m \in Nodes :
        /\ n # m
        /\ pc[n] = "PLAN" /\ status[Key(n)] = STARTED /\ Key(n) \notin mutex
        /\ Key(m) \in mutex /\ SameDC(n, m)

\* the operations on the status table, the planner and the repair commands
StatusOps == {"REPAIR_START", "REPAIR_UPDATE", "check_output", "call"}

\* C11: an invocation in which check_should_run returned False (own-record
\* gate, peer gate or lease lost) goes to the end of main and has written,
\* updated or deleted no StatusRecord and called neither the planner nor a
\* repair command.
C11_FailedAcquisitionNoStatus ==
    \A n \in Nodes :
        ret[n] = "False" =>
            /\ pc[n] = "CLOSE"
            /\ \A i \in 1..Len(log[n]) : log[n][i][1] \notin StatusOps

\* the lease was lost: the MutexRecord was written and deleted, nothing else
C11_Witness ==
    \E n \in Nodes :
        /\ pc[n] = "CLOSE" /\ ret[n] = "False"
        /\ log[n] = <<Ev(n, "MUTEX_START", ""), Ev(n, "MUTEX_CLEANUP", "")>>
        /\ status[Key(n)] = NoRecord

GatingPCs == {"GET_STATUS", "GET_LOCAL_STATUS", "MUTEX_START", "MUTEX_CHECK"}

\* C12: when a query_or_die call of check_should_run fails, the invocation
\* ends at once with exit status 1: that step writes and deletes nothing, so
\* no StatusRecord is written and a MutexRecord already written stays in the
\* table.
C12_FatalStoreError ==
    [][\A n \in Nodes :
        (pc[n] \in GatingPCs /\ exitcode'[n] = "1")
            => (/\ pc'[n] = "idle"
                /\ log'[n] = <<>>
                /\ mutex' = mutex
                /\ status' = status)]_vars

\* the verifying read failed: the MutexRecord of the dead invocation remains
C12_Witness ==
    \E n \in Nodes :
        /\ pc[n] = "idle" /\ exitcode[n] = "1"
        /\ Key(n) \in mutex /\ status[Key(n)] = NoRecord
        /\ invocations = 1 /\ resets = 0

\* the MutexRecords of data center dc
MutexOf(dc) == {k \in mutex : k[2] = dc}

C14_CoolDownRestart ==
    [][\A n \in Nodes :
        /\ (pc[n] = "GET_STATUS" /\ Stepped(n) /\ status[Key(n)] = COMPLETED)
              => (ret'[n] = "False" /\ pc'[n] = "CLOSE" /\ status' = status)
        /\ (status[Key(n)] = COMPLETED /\ status'[Key(n)] # COMPLETED)
              => (expiries' = expiries + 1 \/ rpc[n] = "REPAIR_CLEANUP")
        /\ (/\ pc[n] = "GET_STATUS" /\ Stepped(n)
            /\ n \in cooled /\ status[Key(n)] = NoRecord)
              => pc'[n] = "GET_LOCAL_STATUS"
        /\ (/\ pc[n] = "GET_LOCAL_STATUS" /\ Stepped(n)
            /\ n \in cooled /\ status[Key(n)] = NoRecord /\ ~PeerActive(n))
              => pc'[n] = "MUTEX_START"]_vars

\* the second run of a node: its 'Completed' record expired, it was invoked
\* again and has written 'Started'
C14_Witness ==
    \E n \in Nodes :
        /\ n \in cooled /\ resets = 0 /\ invocations = 2
        /\ pc[n] = "PLAN" /\ status[Key(n)] = STARTED

\* C17: claim_repair writes 'Started' while the MutexRecord is still there
\* and deletes the MutexRecord before the planner and the commands are
\* called: with no reset and no TTL expiry, a node that has won the verifying
\* read holds its MutexRecord or a StatusRecord until the invocation ends,
\* both of them between the two calls of claim_repair, and no MutexRecord
\* from the planner on; while a command runs it never holds a MutexRecord.
C17_ClaimOrdering ==
    \A n \in Nodes :
        /\ (resets = 0 /\ expiries = 0) =>
              /\ ret[n] = "True"
                    => (Key(n) \in mutex \/ status[Key(n)] # NoRecord)
              /\ pc[n] = "REPAIR_START" => Key(n) \in mutex
              /\ pc[n] = "CLAIM_MUTEX_CLEANUP"
                    => (status[Key(n)] = STARTED /\ Key(n) \in mutex)
              /\ pc[n] \in {"PLAN"} \cup PlannedPCs => Key(n) \notin mutex
        /\ pc[n] = "WAIT" => Key(n) \notin mutex

\* the first command runs: the status names its step, the MutexRecord is gone
C17_Witness ==
    \E n \in Nodes :
        /\ resets = 0 /\ expiries = 0
        /\ pc[n] = "WAIT" /\ ret[n] = "True"
        /\ status[Key(n)] = StepNames[1] /\ Key(n) \notin mutex

\* the operation op is among those the invocation of n has logged
HasLogged(l, op) == \E i \in 1..Len(l) : l[i][1] = op

\* C18 (as documented in the module's Workflow): the node's MutexRecord is
\* written before the status table is read, so both status checks are made
\* with the node's own MutexRecord written, and a node that a status check
\* turns away has deleted its MutexRecord when it exits.
C18_MutexBeforeStatus ==
    [][\A n \in Nodes :
        (pc[n] \in {"GET_STATUS", "GET_LOCAL_STATUS"} /\ Stepped(n))
            => /\ HasLogged(log[n], "MUTEX_START")
               /\ ret'[n] = "False" => HasLogged(log'[n], "MUTEX_CLEANUP")]_vars

\* C19 (as claimed): a StatusRecord comes into existence only by the
\* 'Started' write of claim_repair: whenever a key that had no record gets
\* one, the value is 'Started' and the step is the REPAIR_START of its node.
C19_CreatedOnlyByStart ==
    [][\A k \in Keys :
        (status[k] = NoRecord /\ status'[k] # NoRecord)
            => (/\ status'[k] = STARTED
                /\ pc[k[1]] = "REPAIR_START"
                /\ pc'[k[1]] = "CLAIM_MUTEX_CLEANUP")]_vars

\* how far an invocation has got: the statements of main in program order,
\* the loop of run_repair counted by its line
RankOf(p, l) ==
    CASE p = "GET_STATUS" -> 1
      [] p = "GET_LOCAL_STATUS" -> 2
      [] p = "MUTEX_START" -> 3
      [] p = "MUTEX_CHECK" -> 4
      [] p = "MUTEX_CLEANUP" -> 5
      [] p = "REPAIR_START" -> 5
      [] p = "CLAIM_MUTEX_CLEANUP" -> 6
      [] p = "PLAN" -> 7
      [] p = "REPAIR_UPDATE" -> 10 + 3 * l
      [] p = "COMMAND" -> 11 + 3 * l
      [] p = "WAIT" -> 12 + 3 * l
      [] p = "COMPLETED_UPDATE" -> 10 + 3 * l
      [] p = "CLOSE" -> 20 + 3 * (MaxPlanLen + 2)
      [] OTHER -> 21 + 3 * (MaxPlanLen + 2)

\* how many times the invocation has logged op
Count(l, op) == Cardinality({i \in 1..Len(l) : l[i][1] = op})

\* C20: an invocation only moves forward through main (a step of a live
\* invocation never takes it back to a statement or a plan line it has
\* passed), it writes its MutexRecord at most once, writes 'Started' at most
\* once and calls the planner at most once, and, every call returning, it
\* ends: the invocations being finitely many, from some moment on no
\* scheduler invocation and no reset is alive.
C20_SingleTraversal ==
    /\ [][\A n \in Nodes :
            (pc[n] # "idle" /\ pc'[n] # pc[n])
                => RankOf(pc'[n], line'[n]) > RankOf(pc[n], line[n])]_vars
    /\ [](\A n \in Nodes :
            /\ Count(log[n], "MUTEX_START") <= 1
            /\ Count(log[n], "REPAIR_START") <= 1
            /\ Count(log[n], "check_output") <= 1)
    /\ <>[](\A n \in Nodes : pc[n] = "idle" /\ rpc[n] = "none")

\* an invocation has gone through the whole of main, once, and ended
C20_Witness ==
    \E n \in Nodes :
        /\ pc[n] = "idle" /\ exitcode[n] = "0"
        /\ status[Key(n)] = COMPLETED
        /\ invocations = 1 /\ faults = 0

\* status_update_loop is inside one of its two loops over the dictionary
Updating == upc \in {"INSERT", "KEYS", "DELETE"}

\* screen_update_loop is inside its loop over the dictionary
Iterating == spc \in {"NEXT", "TEST", "APPEND"}

\* C15 (as claimed): the renderer never iterates the dictionary while the
\* updater is inserting or deleting entries, so that a pass sees the whole
\* result of one poll cycle, and no step of a pass fails on a dictionary that
\* changed under it (a key removed before its lookup, a size that changed
\* during the iteration).
C15_NoTornReads ==
    /\ ~(Iterating /\ Updating)
    /\ spc \notin {"KeyError", "RuntimeError"}

\* the nodenames of the rows of a read
Polled(rows) == {rows[i][1] : i \in 1..Len(rows)}

\* C16: when a poll cycle of status_update_loop has ended, the keys of the
\* dictionary are exactly the nodenames of the rows read in that cycle and
\* each key holds the row read in that cycle; the entries of the nodes that
\* the read did not return are gone.
C16_SnapshotEqualsPoll ==
    upc = "SLEEP" =>
        /\ KeysOf(status_dict) = Polled(polled)
        /\ \A i \in 1..Len(polled) : status_dict[polled[i][1]] = polled[i]
        /\ \A n \in Nodes : n \notin Polled(polled) => status_dict[n] = NoRow

\* a cycle has ended that kept the row of one node and removed the entry of
\* another, which the dictionary held when the delete loop began
C16_Witness ==
    /\ upc = "SLEEP"
    /\ polled # <<>>
    /\ \E j \in 1..Len(nodenames) : nodenames[j] \notin KeysOf(status_dict)

\* what the verifying read of node n decides on the rows of `view`
VerdictOn(view, n) == Verdict(MUTEX_CHECK(view), n, get_data_center(n))

\* C21 (as claimed): the first record of the data center in the rows of the
\* verifying read decides the lease, so of the nodes of one data center whose
\* verifying reads return the same list at most one gets True and every other
\* one takes the cleanup (it deletes its own MutexRecord and returns False):
\* of two nodes that hold the same rows not both have True and the one without
\* True is at, or past, the cleanup; and whatever list the read can return to
\* two nodes that are both at the read, at most one of them wins and the
\* other, or both, go to the cleanup.
C21_SingleWinnerPerView ==
    \A a, b \in Nodes :
        SameDC(a, b) =>
            /\ (HasVerified(a) /\ HasVerified(b) /\ result[a] = result[b])
                  => /\ ~(ret[a] = "True" /\ ret[b] = "True")
                     /\ ret[a] # "True" => pc[a] \in {"MUTEX_CLEANUP", "CLOSE"}
            /\ (pc[a] = "MUTEX_CHECK" /\ pc[b] = "MUTEX_CHECK")
                  => \A view \in WeakViews(mutex) :
                        /\ ~(VerdictOn(view, a) = "won" /\ VerdictOn(view, b) = "won")
                        /\ VerdictOn(view, a) \in {"won", "lost"}

\* the invocation of n ends in this step and no call to the store failed
EndsUnfailed(n) == pc[n] # "idle" /\ pc'[n] = "idle" /\ faults' = faults

\* the positions between the mutex write and the cleanup or the claim
HoldingPCs == {"MUTEX_CHECK", "MUTEX_CLEANUP", "REPAIR_START", "CLAIM_MUTEX_CLEANUP"}

\* C22 (as claimed): no MutexRecord is left behind by an invocation that ends
\* without a fatal store error: the record of a node appears only by the
\* mutex write of the node's own invocation; while that invocation goes on
\* the record exists only between the write and the cleanup or the claim; the
\* cleanup and the claim remove it; and when the invocation ends, gated out,
\* having lost the lease or with the repair run to the end, no call having
\* failed, the node has no MutexRecord.
C22_NoMutexLeftBehind ==
    [][\A n \in Nodes :
        /\ (Key(n) \notin mutex /\ Key(n) \in mutex')
              => (pc[n] = "MUTEX_START" /\ pc'[n] = "MUTEX_CHECK")
        /\ (HasLogged(log[n], "MUTEX_START") /\ Key(n) \in mutex)
              => pc[n] \in HoldingPCs
        /\ (pc[n] \in {"MUTEX_CLEANUP", "CLAIM_MUTEX_CLEANUP"} /\ Stepped(n)
                /\ faults' = faults)
              => Key(n) \notin mutex'
        /\ (EndsUnfailed(n) /\ HasLogged(log[n], "MUTEX_START"))
              => Key(n) \notin mutex'
        /\ (EndsUnfailed(n) /\ Key(n) \notin mutex) => Key(n) \notin mutex']_vars

====
